---- MODULE Spec2Model ----
(***************************************************************************)
(* A model of src/tetris.cpp: the 2D MLS-MPM simulation (88-line demo).    *)
(*                                                                         *)
(* The state is the particle list and the (n+1) x (n+1) grid; the actions  *)
(* are the scene setup (add_object), and the steps of main's loop: the     *)
(* grid reset, the P2G loop (one particle per action), the grid solve, the *)
(* G2P loop (one particle per action) and the frame (render) test.         *)
(*                                                                         *)
(* `real' values are fixed-point numbers: the integer v stands for         *)
(* v / Scale, and every product, quotient and square root is rounded to    *)
(* the nearest representable value, as floating-point arithmetic rounds.   *)
(* The functions of taichi.h (vectors, matrices, polar_decomp, svd, clamp, *)
(* Vec::rand) are modelled from what the source's calls expect of them.    *)
(*                                                                         *)
(* A write or a read outside the grid array is undefined behaviour: the    *)
(* model stops following the program there (pc = "ub").                    *)
(***************************************************************************)
EXTENDS Integers, Sequences, FiniteSets, TLC

(***************************************************************************)
(* real: fixed-point arithmetic with rounding                              *)
(***************************************************************************)
Scale == 1000000
K == 1000

\* the real number num/den
Real(num, den) == (num * Scale) \div den

Half == Scale \div 2

Abs(a) == IF a < 0 THEN -a ELSE a

Max(a, b) == IF a < b THEN b ELSE a

Min(a, b) == IF b < a THEN b ELSE a

\* floor((a * b + r) / Scale) without leaving 32 bits: a = qa*Scale + ra,
\* b = qb*Scale + rb, ra = r1*K + r0, rb = s1*K + s0
MulR(a, b, r) ==
  LET qa == a \div Scale
      ra == a % Scale
      qb == b \div Scale
      rb == b % Scale
      r1 == ra \div K
      r0 == ra % K
      s1 == rb \div K
      s0 == rb % K
  IN  qa * qb * Scale + qa * rb + ra * qb + r1 * s1
        + ((r1 * s0 + r0 * s1 + ((r0 * s0 + r) \div K)) \div K)

\* a * b, rounded to nearest
Mul(a, b) == MulR(a, b, Half)

\* a * b, rounded down
MulFloor(a, b) == MulR(a, b, 0)

RECURSIVE DivDigits(_, _, _, _)
\* long division: d more decimal digits of (q + r/b), then round to nearest
DivDigits(q, r, b, d) ==
  IF d = 0 THEN (IF 2 * r >= b THEN q + 1 ELSE q)
  ELSE DivDigits(q * 10 + ((r * 10) \div b), (r * 10) % b, b, d - 1)

\* a / b, rounded to nearest (b # 0)
DivPos(a, b) == DivDigits(a \div b, a % b, b, 6)

Div(a, b) == IF b < 0 THEN DivPos(-a, -b) ELSE DivPos(a, b)

RECURSIVE SqrtSearch(_, _, _)
\* the largest r in lo..hi with r*r <= x (in reals)
SqrtSearch(x, lo, hi) ==
  IF lo >= hi THEN lo
  ELSE LET mid == (lo + hi + 1) \div 2
       IN  IF MulFloor(mid, mid) <= x THEN SqrtSearch(x, mid, hi)
           ELSE SqrtSearch(x, lo, mid - 1)

\* std::sqrt
Sqrt(x) == SqrtSearch(x, 0, 46340 * K)

RECURSIVE ExpTaylor(_, _, _, _)
\* sum of the terms r^i / i!, i = 0..11, for 0 <= r < 1
ExpTaylor(r, i, term, total) ==
  IF i > 11 THEN total
  ELSE LET t == Div(Mul(term, r), i * Scale)
       IN  ExpTaylor(r, i + 1, t, total + t)

RECURSIVE ExpScale(_, _)
\* y * e^k for an integer k (e = 2.718282)
ExpScale(y, k) ==
  IF k = 0 THEN y
  ELSE IF k > 0 THEN ExpScale(Mul(y, 2718282), k - 1)
  ELSE ExpScale(Div(y, 2718282), k + 1)

\* std::exp
Exp(x) ==
  IF x < -14 * Scale THEN 0
  ELSE ExpScale(ExpTaylor(x % Scale, 1, Scale, Scale), x \div Scale)

\* x * (c / K) for a large constant c held in units of 1/K
MulK(x, c) == x * (c \div K) + ((x * (c % K) + (K \div 2)) \div K)

\* conversion of a real to int, as cast<int>() converts: the fraction is
\* dropped (toward zero)
Cast(x) == IF x >= 0 THEN x \div Scale ELSE -((-x) \div Scale)

\* conversion of an int to real
ToReal(i) == i * Scale

sqr(a) == Mul(a, a)

clamp(a, lo, hi) == Min(Max(a, lo), hi)

(***************************************************************************)
(* Vec = Vector2 and Mat = Matrix2 (rows)                                  *)
(***************************************************************************)
Vec(a) == <<a, a>>

VAdd(a, b) == <<a[1] + b[1], a[2] + b[2]>>

VSub(a, b) == <<a[1] - b[1], a[2] - b[2]>>

VScale(s, a) == <<Mul(s, a[1]), Mul(s, a[2])>>

\* Mat(a) is a times the identity
Mat(a) == <<<<a, 0>>, <<0, a>>>>

MAdd(A, B) == <<VAdd(A[1], B[1]), VAdd(A[2], B[2])>>

MSub(A, B) == <<VSub(A[1], B[1]), VSub(A[2], B[2])>>

MScale(s, A) == <<VScale(s, A[1]), VScale(s, A[2])>>

MatMul(A, B) ==
  <<<<Mul(A[1][1], B[1][1]) + Mul(A[1][2], B[2][1]),
      Mul(A[1][1], B[1][2]) + Mul(A[1][2], B[2][2])>>,
    <<Mul(A[2][1], B[1][1]) + Mul(A[2][2], B[2][1]),
      Mul(A[2][1], B[1][2]) + Mul(A[2][2], B[2][2])>>>>

MatVec(A, v) ==
  <<Mul(A[1][1], v[1]) + Mul(A[1][2], v[2]),
    Mul(A[2][1], v[1]) + Mul(A[2][2], v[2])>>

transposed(A) == <<<<A[1][1], A[2][1]>>, <<A[1][2], A[2][2]>>>>

determinant(A) == Mul(A[1][1], A[2][2]) - Mul(A[1][2], A[2][1])

outer_product(a, b) ==
  <<<<Mul(a[1], b[1]), Mul(a[1], b[2])>>,
    <<Mul(a[2], b[1]), Mul(a[2], b[2])>>>>

\* polar_decomp(A, R, S): A = R * S, R a rotation, S symmetric
polar_decomp(A) ==
  LET x == A[1][1] + A[2][2]
      y == A[2][1] - A[1][2]
      scale == Div(Scale, Sqrt(Mul(x, x) + Mul(y, y)))
      c == Mul(x, scale)
      s == Mul(y, scale)
      R == <<<<c, -s>>, <<s, c>>>>
  IN  [r |-> R, s |-> MatMul(transposed(R), A)]

\* the rotation (c, s) of the Jacobi step that diagonalises the symmetric S
Givens(S) ==
  LET tao == Mul(Half, S[1][1] - S[2][2])
      w == Sqrt(Mul(tao, tao) + Mul(S[1][2], S[1][2]))
      t == IF tao > 0 THEN Div(S[1][2], tao + w) ELSE Div(S[1][2], tao - w)
      c == Div(Scale, Sqrt(Mul(t, t) + Scale))
  IN  IF Abs(S[1][2]) < 1 THEN [c |-> Scale, s |-> 0]
      ELSE [c |-> c, s |-> -Mul(t, c)]

\* the decomposition with the rotation R, the singular values a >= b and V
Sorted(R, V, a, b) ==
  [u |-> MatMul(R, V), sig |-> <<<<a, 0>>, <<0, b>>>>, v |-> V]

\* S = V * sig * transposed(V) for the rotation (c, s), the larger value
\* first
Diagonal(R, S, c, s) ==
  LET s11 == Mul(Mul(c, c), S[1][1]) - Mul(2 * Mul(s, c), S[1][2])
               + Mul(Mul(s, s), S[2][2])
      s22 == Mul(Mul(s, s), S[1][1]) + Mul(2 * Mul(s, c), S[1][2])
               + Mul(Mul(c, c), S[2][2])
  IN  IF s11 < s22 THEN Sorted(R, <<<<-s, c>>, <<-c, -s>>>>, s22, s11)
      ELSE Sorted(R, <<<<c, s>>, <<-s, c>>>>, s11, s22)

\* the decomposition of A = pd.r * pd.s
Jacobi(pd, g) == Diagonal(pd.r, pd.s, g.c, g.s)

\* svd(A, U, sig, V): A = U * sig * transposed(V), sig diagonal with
\* sig[1][1] >= sig[2][2]
svd(A) == Jacobi(polar_decomp(A), Givens(polar_decomp(A).s))

(***************************************************************************)
(* The program's constants (lines 4-8)                                     *)
(***************************************************************************)
n == 80

dt == Real(1, 10000)

frame_dt == Real(1, 1000)

dx == Div(Scale, ToReal(n))

inv_dx == Div(Scale, dx)

particle_mass == Scale

vol == Scale

hardening == 10 * Scale

\* Young's modulus 1e4 and the Lame parameters exceed the range of a
\* fixed-point real: they are held in units of 1/K and applied with MulK
E == 10000 * K

nu == Real(2, 10)

mu_0 == Div(E, 2 * (Scale + nu))

lambda_0 == Div(Mul(E, nu), Mul(Scale + nu, Scale - 2 * nu))

Identity == Mat(Scale)

Zero3 == <<0, 0, 0>>

\* the nodes of Vector3 grid[n + 1][n + 1]
Nodes == (0..n) \X (0..n)

\* The grid is held as the function from the nodes whose value is not known
\* to be zero to their values: every other node of the array holds zero.
ZeroGrid == [node \in {} |-> Zero3]

\* grid[a][b]
GridAt(g, a, b) == IF <<a, b>> \in DOMAIN g THEN g[<<a, b>>] ELSE Zero3

\* grid[a][b] = val
GridSet(g, a, b, val) ==
  [node \in DOMAIN g \union {<<a, b>>} |->
     IF node = <<a, b>> THEN val ELSE g[node]]

\* Particle(x, c, type, v): F(1), C(0), Jp(1)
Particle(x, c, type, v) ==
  [x |-> x, v |-> v, F |-> Identity, C |-> Mat(0), Jp |-> Scale,
   c |-> c, type |-> type]

(***************************************************************************)
(* advance: the pieces P2G and G2P share (lines 28-33 and 67-71)           *)
(***************************************************************************)
\* base_coord = (p.x * inv_dx - Vec(0.5)).cast<int>()
BaseCoord(p) ==
  <<Cast(Mul(p.x[1], inv_dx) - Half), Cast(Mul(p.x[2], inv_dx) - Half)>>

\* fx = p.x * inv_dx - base_coord.cast<real>()
Fx(p, base) ==
  <<Mul(p.x[1], inv_dx) - ToReal(base[1]),
    Mul(p.x[2], inv_dx) - ToReal(base[2])>>

\* Kernel with the middle weight centred at 0.5 instead of 1
Kernel_WrongCentre(f) ==
  <<Mul(Half, sqr(Real(3, 2) - f)),
    Real(3, 4) - sqr(f - Half),
    Mul(Half, sqr(f - Half))>>

\* the quadratic kernel of one axis: w[0], w[1], w[2] at offset f
Kernel(f) ==
  <<Mul(Half, sqr(Real(3, 2) - f)),
    Real(3, 4) - sqr(f - Scale),
    Mul(Half, sqr(f - Half))>>

\* w[i].x * w[j].y, i, j in 0..2
Weight(fx, i, j) == Mul(Kernel(fx[1])[i + 1], Kernel(fx[2])[j + 1])

\* the grid nodes base_coord + (i, j) are nodes of grid[n + 1][n + 1]
InGrid(base) ==
  /\ base[1] >= 0 /\ base[1] + 2 <= n
  /\ base[2] >= 0 /\ base[2] + 2 <= n

Stencil(base) == {<<base[1] + i, base[2] + j>> : i \in 0..2, j \in 0..2}

(***************************************************************************)
(* advance: P2G (lines 27-51)                                              *)
(***************************************************************************)
\* stress = -4*inv_dx*inv_dx*dt*vol * (2*mu*(F - r)*transposed(F)
\*                                      + lambda*(J - 1)*J)
Stress(p, h) ==
  LET e == Exp(Mul(hardening, Scale - p.Jp))
      J == determinant(p.F)
      r == polar_decomp(p.F).r
      coef == Mul(Mul(-4 * inv_dx, Mul(inv_dx, h)), vol)
      A == MScale(e, MatMul(MSub(p.F, r), transposed(p.F)))
      twoMuA == <<<<MulK(A[1][1], 2 * mu_0), MulK(A[1][2], 2 * mu_0)>>,
                  <<MulK(A[2][1], 2 * mu_0), MulK(A[2][2], 2 * mu_0)>>>>
      lamJ == MulK(Mul(e, Mul(J - Scale, J)), lambda_0)
  IN  MScale(coef, MAdd(twoMuA, Mat(lamJ)))

\* affine = stress + particle_mass * p.C
Affine(p, h) == MAdd(Stress(p, h), MScale(particle_mass, p.C))

\* w[i].x * w[j].y * (mv + Vector3(affine * dpos, 0))
Contribution(p, fx, affine, i, j) ==
  LET dpos == VScale(dx, <<ToReal(i) - fx[1], ToReal(j) - fx[2]>>)
      mv == <<Mul(p.v[1], particle_mass), Mul(p.v[2], particle_mass),
              particle_mass>>
      a == MatVec(affine, dpos)
      w == Weight(fx, i, j)
  IN  <<Mul(w, mv[1] + a[1]), Mul(w, mv[2] + a[2]), Mul(w, mv[3])>>

\* grid[...] += ...
Accumulate(old, add) == <<old[1] + add[1], old[2] + add[2], old[3] + add[3]>>

RECURSIVE Scatter(_, _, _, _, _, _)
\* the loops over i and j, run from the iteration ij = 3*i + j on
Scatter(g, p, base, fx, affine, ij) ==
  IF ij > 8 THEN g
  ELSE LET i == ij \div 3
           j == ij % 3
           a == base[1] + i
           b == base[2] + j
       IN  Scatter(GridSet(g, a, b,
                           Accumulate(GridAt(g, a, b),
                                      Contribution(p, fx, affine, i, j))),
                   p, base, fx, affine, ij + 1)

\* one iteration of the P2G loop, on an in-range stencil
P2G(g, p, h) ==
  LET base == BaseCoord(p)
  IN  Scatter(g, p, base, Fx(p, base), Affine(p, h), 0)

(***************************************************************************)
(* advance: the grid solve (lines 52-65)                                   *)
(***************************************************************************)
\* if (g[2] > 0)
HasMass(g) == g[3] > 0

\* the node (i, j) is in the left, right or top band
Sticky(i, j) ==
  LET boundary == Real(5, 100)
      x == Div(ToReal(i), ToReal(n))
      y == Div(ToReal(j), ToReal(n))
  IN  x < boundary \/ x > Scale - boundary \/ y > Scale - boundary

\* the node (i, j) is in the bottom band
Separate(i, j) == Div(ToReal(j), ToReal(n)) < Real(5, 100)

\* SolveNode with gravity added after the boundary conditions
SolveNode_GravityLast(g, i, j, h) ==
  IF HasMass(g)
  THEN LET a == <<Div(g[1], g[3]), Div(g[2], g[3]), Div(g[3], g[3])>>
           c == IF Sticky(i, j) THEN Zero3 ELSE a
           d == IF Separate(i, j) THEN <<c[1], Max(0, c[2]), c[3]>> ELSE c
       IN  <<d[1] + Mul(h, 0), d[2] + Mul(h, -200 * Scale), d[3] + Mul(h, 0)>>
  ELSE g

SolveNode(g, i, j, h) ==
  IF HasMass(g)
  THEN LET a == <<Div(g[1], g[3]), Div(g[2], g[3]), Div(g[3], g[3])>>
           b == <<a[1] + Mul(h, 0), a[2] + Mul(h, -200 * Scale),
                  a[3] + Mul(h, 0)>>
           c == IF Sticky(i, j) THEN Zero3 ELSE b
       IN  IF Separate(i, j) THEN <<c[1], Max(0, c[2]), c[3]>> ELSE c
  ELSE g

\* for (i = 0; i <= n; i++) for (j = 0; j <= n; j++)
GridSolve(g, h) ==
  LET solved == [node \in Nodes |->
                   SolveNode(GridAt(g, node[1], node[2]), node[1], node[2], h)]
  IN  [node \in {q \in Nodes : solved[q] # Zero3} |-> solved[node]]

(***************************************************************************)
(* advance: G2P (lines 66-98)                                              *)
(***************************************************************************)
RECURSIVE Gather(_, _, _, _, _)
\* the loops over i and j: acc = [v, C], from the iteration ij on
Gather(g, base, fx, acc, ij) ==
  IF ij > 8 THEN acc
  ELSE LET i == ij \div 3
           j == ij % 3
           dpos == <<ToReal(i) - fx[1], ToReal(j) - fx[2]>>
           node == GridAt(g, base[1] + i, base[2] + j)
           grid_v == <<node[1], node[2]>>
           weight == Weight(fx, i, j)
           wv == VScale(weight, grid_v)
       IN  Gather(g, base, fx,
                  [v |-> VAdd(acc.v, wv),
                   C |-> MAdd(acc.C,
                              MScale(4 * inv_dx, outer_product(wv, dpos)))],
                  ij + 1)

\* lines 89-94 on the decomposition d of F, sig clamped to
\* [1 - 2.5e-2, hi]: the new F and the new Jp
Plasticity(d, hi, oldJ, Jp) ==
  LET lo == Scale - Real(25, 1000)
      sig == <<<<clamp(d.sig[1][1], lo, hi), 0>>,
               <<0, clamp(d.sig[2][2], lo, hi)>>>>
      F == MatMul(MatMul(d.u, sig), transposed(d.v))
  IN  [F |-> F,
       Jp |-> clamp(Div(Mul(Jp, oldJ), determinant(F)),
                    Real(6, 10), 20 * Scale)]

\* SnowPlasticity with the upper bound 1 + 7.5e-2 for 1 + 7.5e-3
SnowPlasticity_WideClamp(F, Jp) ==
  Plasticity(svd(F), Scale + Real(75, 1000), determinant(F), Jp)

\* Snow plasticity (lines 86-95): the clamped F and the new Jp
SnowPlasticity(F, Jp) ==
  Plasticity(svd(F), Scale + Real(75, 10000), determinant(F), Jp)

\* UpdatesF with the test p.type <= 2
UpdatesF_AnyType(type) == type <= 2

\* if (p.type <= 1)
UpdatesF(type) == type <= 1

\* p.F = F; p.Jp = Jp_new
Hardened(p, snow) == [p EXCEPT !.F = snow.F, !.Jp = snow.Jp]

\* Deform with `if (p.type = 1)' for `if (p.type == 1)': it assigns the
\* type
Deform_AssignsType(p, F) ==
  IF UpdatesF(p.type)
  THEN Hardened([p EXCEPT !.type = 1], SnowPlasticity(F, p.Jp))
  ELSE p

\* lines 84-97: p.F = F and, for the type 1, the snow plasticity
Deform(p, F) ==
  IF UpdatesF(p.type)
  THEN (IF p.type = 1 THEN Hardened(p, SnowPlasticity(F, p.Jp))
        ELSE [p EXCEPT !.F = F])
  ELSE p

\* lines 72-85 after the loops: p.C and p.v as gathered, the advection
\* and the MLS-MPM F-update
Advect(p, acc, h) ==
  Deform([p EXCEPT !.C = acc.C, !.v = acc.v,
                   !.x = VAdd(p.x, VScale(h, acc.v))],
         MatMul(MAdd(Identity, MScale(h, acc.C)), p.F))

\* one iteration of the G2P loop, on an in-range stencil
G2P(g, p, h) ==
  LET base == BaseCoord(p)
      fx == Fx(p, base)
  IN  Advect(p, Gather(g, base, fx, [v |-> Vec(0), C |-> Mat(0)], 0), h)

(***************************************************************************)
(* Bounds                                                                  *)
(***************************************************************************)
\* particles per add_object call (the program adds 500)
PerObject == 1

\* iterations of main's loop that are followed
MaxSteps == 72

(***************************************************************************)
(* State                                                                   *)
(***************************************************************************)
VARIABLES
  particles,  \* std::vector<Particle> particles
  grid,       \* Vector3 grid[n + 1][n + 1]: (velocity or momentum, mass)
  pc,         \* where main is: setup, memset, p2g, solve, g2p, frame, ub
  objects,    \* add_object calls made
  k,          \* particles the running loop of advance has processed
  i,          \* main's loop counter
  seed,       \* state of the random number generator
  canvas,     \* what the last rendered frame shows: (x, c) per particle
  created,    \* history: (c, type) of each particle as constructed
  located,    \* history: per phase, (x, base, fx) of each particle visited
  held,       \* history: nodes that held a value when this step began
  touched,    \* history: nodes this step's P2G has added to
  divided     \* history: nodes this step's grid solve has divided by mass

vars ==
  <<particles, grid, pc, objects, k, i, seed, canvas, created, located,
    held, touched, divided>>

(***************************************************************************)
(* Scene setup: add_object (lines 101-105) and main (lines 108-111)        *)
(***************************************************************************)
\* the generator behind Vec::rand(): a full-period congruential sequence
NextSeed(s) == (s * 1229 + 1) % 2048

\* a random real in [0, 1)
Rand(s) == (s * Scale) \div 2048

\* Position with the spread 0.8 for 0.08
Position_WideSpread(r, center) ==
  VAdd(VScale(Real(8, 10), VSub(VScale(2 * Scale, r), Vec(Scale))), center)

\* (Vec::rand() * 2.0 - Vec(1)) * 0.08 + center
Position(r, center) ==
  VAdd(VScale(Real(8, 100), VSub(VScale(2 * Scale, r), Vec(Scale))), center)

RECURSIVE AddParticles(_, _, _, _, _, _)
\* the loop of add_object: count more particles; returns [ps, seed]
AddParticles(ps, s, center, c, type, count) ==
  IF count = 0 THEN [ps |-> ps, seed |-> s]
  ELSE LET s1 == NextSeed(s)
           s2 == NextSeed(s1)
           r == <<Rand(s1), Rand(s2)>>
       IN  AddParticles(Append(ps, Particle(Position(r, center), c, type,
                                            Vec(0))),
                        s2, center, c, type, count - 1)

\* The arguments of the calls of add_object, in order: for each call those
\* main passes and others (a center at least 0.08 away from every wall)
Arguments ==
  << { [center |-> <<Real(55, 100), Real(45, 100)>>, c |-> 15553851,
        type |-> 0],
       [center |-> <<Real(502, 1000), Real(123, 1000)>>, c |-> 15553851,
        type |-> 0] },
     { [center |-> <<Real(45, 100), Real(65, 100)>>, c |-> 15905076,
        type |-> 1],
       [center |-> <<Real(503, 1000), Real(127, 1000)>>, c |-> 15905076,
        type |-> 1] },
     { [center |-> <<Real(55, 100), Real(85, 100)>>, c |-> 427399,
        type |-> 1],
       [center |-> <<Real(547, 1000), Real(159, 1000)>>, c |-> 5224863,
        type |-> 2],
       [center |-> <<Real(9, 100), Real(13, 100)>>, c |-> 427399,
        type |-> 1] } >>

Init ==
  /\ particles = <<>>
  /\ grid = ZeroGrid
  /\ pc = "setup"
  /\ objects = 0
  /\ k = 0
  /\ i = 0
  /\ seed = 224
  /\ canvas = <<>>
  /\ created = <<>>
  /\ located = [p2g |-> <<>>, g2p |-> <<>>]
  /\ held = {}
  /\ touched = {}
  /\ divided = {}

add_object(o) ==
  /\ pc = "setup"
  /\ o \in Arguments[objects + 1]
  /\ LET r == AddParticles(particles, seed, o.center, o.c, o.type, PerObject)
     IN  /\ particles' = r.ps
         /\ seed' = r.seed
         /\ created' = created \o [q \in 1..(Len(r.ps) - Len(particles)) |->
                                     [c |-> o.c, type |-> o.type]]
  /\ objects' = objects + 1
  /\ pc' = IF objects + 1 = Len(Arguments) THEN "memset" ELSE "setup"
  /\ UNCHANGED <<grid, k, i, canvas, located, held, touched, divided>>

(***************************************************************************)
(* advance(dt), as main's loop runs it                                     *)
(***************************************************************************)
\* Cleared without the memset
Cleared_Kept(g) == g

\* std::memset(grid, 0, sizeof(grid))
Cleared(g) == ZeroGrid

\* the nodes of g that hold a value other than zero
NonZero(g) == {node \in DOMAIN g : g[node] # Zero3}

Memset ==
  /\ pc = "memset"
  /\ i < MaxSteps
  /\ grid' = Cleared(grid)
  /\ located' = [p2g |-> <<>>, g2p |-> <<>>]
  /\ held' = NonZero(grid)
  /\ touched' = {}
  /\ divided' = {}
  /\ k' = 0
  /\ pc' = IF Len(particles) = 0 THEN "solve" ELSE "p2g"
  /\ UNCHANGED <<particles, objects, i, seed, canvas, created>>

\* what an iteration of a particle loop computes first: the base cell and
\* the offset of the particle
Located(p) == [x |-> p.x, base |-> BaseCoord(p), fx |-> Fx(p, BaseCoord(p))]

\* AfterParticle leaving the loop after its first iteration
AfterParticle_ExitsEarly(here, next) == next

\* where the particle loops go after the particle at index k (from 0)
AfterParticle(here, next) ==
  IF k + 1 < Len(particles) THEN here ELSE next

\* one iteration of `for (auto &p : particles)' of P2G
P2GStep ==
  /\ pc = "p2g"
  /\ LET p == particles[k + 1]
         base == BaseCoord(p)
     IN  IF InGrid(base)
         THEN /\ grid' = P2G(grid, p, dt)
              /\ located' = [located EXCEPT !.p2g = Append(@, Located(p))]
              /\ touched' = touched \union Stencil(base)
              /\ k' = k + 1
              /\ pc' = AfterParticle("p2g", "solve")
         ELSE /\ pc' = "ub"
              /\ UNCHANGED <<grid, located, touched, k>>
  /\ UNCHANGED <<particles, objects, i, seed, canvas, created, held, divided>>

\* the loops over all grid nodes
Solve ==
  /\ pc = "solve"
  /\ grid' = GridSolve(grid, dt)
  /\ divided' = {node \in Nodes : HasMass(GridAt(grid, node[1], node[2]))}
  /\ k' = 0
  /\ pc' = IF Len(particles) = 0 THEN "frame" ELSE "g2p"
  /\ UNCHANGED <<particles, objects, i, seed, canvas, created, located,
                 held, touched>>

\* one iteration of `for (auto &p : particles)' of G2P
G2PStep ==
  /\ pc = "g2p"
  /\ LET p == particles[k + 1]
     IN  IF InGrid(BaseCoord(p))
         THEN /\ particles' = [particles EXCEPT ![k + 1] = G2P(grid, p, dt)]
              /\ located' = [located EXCEPT !.g2p = Append(@, Located(p))]
              /\ k' = k + 1
              /\ pc' = AfterParticle("g2p", "frame")
         ELSE /\ pc' = "ub"
              /\ UNCHANGED <<particles, located, k>>
  /\ UNCHANGED <<grid, objects, i, seed, canvas, created, held, touched,
                 divided>>

\* for (auto p : particles) canvas.circle(p.x).radius(2).color(p.c)
Shown(ps) == [q \in 1..Len(ps) |-> [x |-> ps[q].x, c |-> ps[q].c]]

\* if (i % int(frame_dt / dt) == 0): draw the particles; then i++
Frame ==
  /\ pc = "frame"
  /\ canvas' = IF i % Cast(Div(frame_dt, dt)) = 0
               THEN Shown(particles)
               ELSE canvas
  /\ i' = i + 1
  /\ pc' = "memset"
  /\ UNCHANGED <<particles, grid, objects, k, seed, created, located, held,
                 touched, divided>>

Next ==
  \/ \E o \in UNION {Arguments[a] : a \in 1..Len(Arguments)} : add_object(o)
  \/ Memset
  \/ P2GStep
  \/ Solve
  \/ G2PStep
  \/ Frame

Spec == Init /\ [][Next]_vars

(***************************************************************************)
(* A second specification: one step of advance on one particle placed      *)
(* anywhere near the low corner, the positions below half a cell included  *)
(***************************************************************************)
ProbeCoords ==
  {Real(3, 1000), Real(6, 1000), Real(1, 100), Real(1, 10), Real(5, 10)}

InitBase ==
  \E x \in ProbeCoords, y \in ProbeCoords :
    /\ particles = <<Particle(<<x, y>>, 15553851, 0, Vec(0))>>
    /\ created = <<[c |-> 15553851, type |-> 0]>>
    /\ grid = ZeroGrid
    /\ pc = "memset"
    /\ objects = Len(Arguments)
    /\ k = 0
    /\ i = MaxSteps - 1
    /\ seed = 224
    /\ canvas = <<>>
    /\ located = [p2g |-> <<>>, g2p |-> <<>>]
    /\ held = {}
    /\ touched = {}
    /\ divided = {}

NextBase ==
  \/ Memset
  \/ P2GStep
  \/ Solve
  \/ G2PStep
  \/ Frame

SpecBase == InitBase /\ [][NextBase]_vars

(***************************************************************************)
(* Properties                                                              *)
(***************************************************************************)
\* the grid solve of the current step is done
AfterSolve == pc \in {"g2p", "frame"}

\* the rounding error allowed in a singular value and in a sum of weights
RoundingTolerance == Scale \div 100000

\* Natural numbers beyond 32 bits, for exact tests on products of reals:
\* sequences of digits in base 10^4, the lowest first
Base == 10 * K

Big(x) == <<x % Base, (x \div Base) % Base, x \div (Base * Base)>>

Digit(a, q) == IF q <= Len(a) THEN a[q] ELSE 0

RECURSIVE Carry(_, _, _)
\* the digits of the number with the coefficients a, from position q on
Carry(a, q, c) ==
  IF q > Len(a) /\ c = 0 THEN <<>>
  ELSE LET t == Digit(a, q) + c
       IN  <<t % Base>> \o Carry(a, q + 1, t \div Base)

BigAdd(a, b) ==
  Carry([q \in 1..Max(Len(a), Len(b)) |-> Digit(a, q) + Digit(b, q)], 1, 0)

RECURSIVE Coefficient(_, _, _, _)
\* sum of a[r] * b[q + 1 - r] over r..q
Coefficient(a, b, q, r) ==
  IF r > q THEN 0
  ELSE Digit(a, r) * Digit(b, q + 1 - r) + Coefficient(a, b, q, r + 1)

BigMul(a, b) ==
  Carry([q \in 1..(Len(a) + Len(b)) |-> Coefficient(a, b, q, 1)], 1, 0)

RECURSIVE LeqFrom(_, _, _)
\* a <= b on the digits 1..q
LeqFrom(a, b, q) ==
  IF q = 0 THEN TRUE
  ELSE IF Digit(a, q) < Digit(b, q) THEN TRUE
  ELSE IF Digit(a, q) > Digit(b, q) THEN FALSE
  ELSE LeqFrom(a, b, q - 1)

BigLeq(a, b) == LeqFrom(a, b, Max(Len(a), Len(b)))

Sign(x) == IF x < 0 THEN -1 ELSE IF x > 0 THEN 1 ELSE 0

\* Every singular value of the matrix F is within [lo, hi], exactly: with
\* T the trace of transposed(F) * F and D the determinant of F, the squares
\* of the singular values are the roots of p(z) = z^2 - T*z + D^2, and both
\* are within [lo^2, hi^2] iff 2*lo^2 <= T <= 2*hi^2, p(lo^2) >= 0 and
\* p(hi^2) >= 0
SingularValuesWithin(F, lo, hi) ==
  LET a == Big(Abs(F[1][1]))
      b == Big(Abs(F[1][2]))
      c == Big(Abs(F[2][1]))
      d == Big(Abs(F[2][2]))
      T == BigAdd(BigAdd(BigMul(a, a), BigMul(b, b)),
                  BigAdd(BigMul(c, c), BigMul(d, d)))
      ad == BigMul(a, d)
      bc == BigMul(b, c)
      \* D^2 = ad^2 + bc^2 - 2*ad*bc, the last with the sign of a*d*b*c
      squares == BigAdd(BigMul(ad, ad), BigMul(bc, bc))
      cross == BigMul(Big(2), BigMul(ad, bc))
      same == Sign(F[1][1]) * Sign(F[2][2]) * Sign(F[1][2]) * Sign(F[2][1]) >= 0
      NonNegativeAt(z) ==
        IF same
        THEN BigLeq(BigAdd(BigMul(T, z), cross),
                    BigAdd(BigMul(z, z), squares))
        ELSE BigLeq(BigMul(T, z),
                    BigAdd(BigAdd(BigMul(z, z), squares), cross))
      L == BigMul(Big(lo), Big(lo))
      H == BigMul(Big(hi), Big(hi))
  IN  /\ BigLeq(BigAdd(L, L), T)
      /\ NonNegativeAt(L)
      /\ BigLeq(T, BigAdd(H, H))
      /\ NonNegativeAt(H)

\* between two calls of advance, every singular value of the F of a
\* particle of type 1 is within [0.975 - t, 1.0075 + t], and its Jp within
\* [0.6, 20.0]
ClampBounds(t) ==
  pc \in {"memset", "frame"} =>
    \A q \in 1..Len(particles) :
      particles[q].type = 1 =>
        /\ particles[q].Jp >= Real(6, 10)
        /\ particles[q].Jp <= 20 * Scale
        /\ SingularValuesWithin(particles[q].F, Scale - Real(25, 1000) - t,
                                Scale + Real(75, 10000) + t)

\* C1 (as amended): after any number of calls of advance, every particle of
\* type 1 has Jp within [0.6, 20.0], and each singular value of its F lies
\* within [0.975, 1.0075] up to the rounding error of the product
\* U * sig * transposed(V) that F is assigned
C1_PlasticClampBounds == ClampBounds(RoundingTolerance)

\* C1 (as stated): after any number of calls of advance, every particle of
\* type 1 has Jp within [0.6, 20.0] and each singular value of F within
\* [0.975, 1.0075]
C1_ExactClampBounds == ClampBounds(0)

\* C1: a particle of type 1 that the clamp has changed: its Jp has moved
\* and its largest singular value sits at the upper bound
C1_ClampActed ==
  \E q \in 1..Len(particles) :
    /\ particles[q].type = 1
    /\ particles[q].Jp > Scale + Real(1, 1000)
    /\ ~SingularValuesWithin(particles[q].F, 0,
                             Scale + Real(75, 10000) - RoundingTolerance)

\* C2: the F of every particle of type 2 is the F it was created with (the
\* identity), after any number of calls of advance
C2_LiquidFUnchanged ==
  \A q \in 1..Len(particles) :
    particles[q].type = 2 => particles[q].F = Identity

\* C2: a particle of type 2 that a step has given a velocity gradient C
\* with dt * C # 0, so that (I + dt * C) * F differs from F
C2_LiquidInFlow ==
  \E q \in 1..Len(particles) :
    /\ particles[q].type = 2
    /\ MScale(dt, particles[q].C) # Mat(0)
    /\ i >= 1

\* the order in which main moves from one position to the next
StepOrder ==
  { <<"setup", "setup">>, <<"setup", "memset">>, <<"memset", "p2g">>,
    <<"p2g", "p2g">>, <<"p2g", "solve">>, <<"solve", "g2p">>,
    <<"g2p", "g2p">>, <<"g2p", "frame">>, <<"frame", "memset">> }

\* C3: within every step P2G, the grid solve and G2P run in this order, P2G
\* and G2P each over every particle before the next phase starts, and the
\* frame is drawn only between steps, from the particles as the completed
\* step left them
C3_PhasesInOrder ==
  [][ /\ <<pc, pc'>> \in StepOrder
      /\ (pc = "p2g" /\ pc' = "solve") =>
           /\ k' = Len(particles)
           /\ Len(located'.p2g) = Len(particles)
      /\ (pc = "solve" /\ pc' = "g2p") =>
           /\ Len(located.p2g) = Len(particles)
           /\ located'.g2p = <<>>
      /\ (pc = "g2p" /\ pc' = "frame") =>
           /\ k' = Len(particles)
           /\ Len(located'.g2p) = Len(particles)
      /\ canvas' # canvas =>
           /\ pc = "frame"
           /\ Len(located.g2p) = Len(particles)
           /\ canvas' = Shown(particles) ]_vars

\* C3: a second frame has been drawn, after the step with i = 10
C3_FrameDrawn ==
  /\ i > 10
  /\ canvas # <<>>
  /\ pc = "memset"
  /\ canvas # Shown(particles)

\* C4: after the grid solve of every step, a node that this step's P2G has
\* not added to holds zero velocity and zero mass, whatever it held when
\* the step began, and the solve has not divided by its mass: the nodes
\* that hold a value, and the nodes divided, are among those added to
C4_UntouchedNodesZero ==
  AfterSolve =>
    /\ NonZero(grid) \subseteq touched
    /\ divided \subseteq touched

\* C4: after a grid solve, a node that held a value when the step began
\* and that this step's P2G has not added to
C4_StaleNodeUntouched ==
  /\ AfterSolve
  /\ touched # {}
  /\ held \ touched # {}

\* C5: after the grid solve of every step, every node with x < 0.05,
\* x > 0.95 or y > 0.95 (x = i / n, y = j / n) has velocity zero in both
\* components, and every node with y < 0.05 has a vertical velocity >= 0
\* (the nodes that hold zero satisfy both)
C5_BoundaryBands ==
  AfterSolve =>
    \A node \in NonZero(grid) :
      /\ (20 * node[1] < n \/ 20 * node[1] > 19 * n
            \/ 20 * node[2] > 19 * n) =>
           (grid[node][1] = 0 /\ grid[node][2] = 0)
      /\ 20 * node[2] < n => grid[node][2] >= 0

\* C5: after a grid solve that divided a node of the left band and a node
\* of the bottom band that is in no other band
C5_BandsReached ==
  /\ AfterSolve
  /\ \E node \in divided : 20 * node[1] < n
  /\ \E node \in divided :
       /\ 20 * node[2] < n
       /\ 20 * node[1] >= n
       /\ GridAt(grid, node[1], node[2])[3] > 0

\* C6: advance never adds, removes or reorders particles and never changes
\* a type or a color: the particles are, in order, those constructed, each
\* with the type and the color it was constructed with
C6_ParticlesKept ==
  /\ Len(particles) = Len(created)
  /\ \A q \in 1..Len(particles) :
       /\ particles[q].c = created[q].c
       /\ particles[q].type = created[q].type

\* C6: a step has run over particles of the three types
C6_StepsDone ==
  /\ i >= 1
  /\ \A t \in 0..2 : \E q \in 1..Len(particles) : particles[q].type = t

RECURSIVE SumWeights(_, _)
\* the sum of the weights w[i].x * w[j].y from the iteration ij on
SumWeights(fx, ij) ==
  IF ij > 8 THEN 0
  ELSE Mul(Weight(fx, ij \div 3, ij % 3), particle_mass)
         + SumWeights(fx, ij + 1)

RECURSIVE SumMass(_, _)
\* the sum of the mass of the nodes of a set
SumMass(g, nodes) ==
  IF nodes = {} THEN 0
  ELSE LET node == CHOOSE q \in nodes : TRUE
       IN  g[node][3] + SumMass(g, nodes \ {node})

\* the mass a particle adds to the grid is particle_mass up to t, and so
\* is, per particle, the mass the grid holds during and after P2G
MassBooked(t) ==
  pc \in {"p2g", "solve"} =>
    /\ \A q \in 1..Len(located.p2g) :
         Abs(SumWeights(located.p2g[q].fx, 0) - particle_mass) <= t
    /\ Abs(SumMass(grid, DOMAIN grid) - k * particle_mass) <= k * t

\* C8 (as amended): the nine weights of a particle sum to 1 up to rounding
\* error, so the mass a particle adds to the grid in P2G is particle_mass
\* up to rounding error, and the mass of the grid after P2G is
\* particle_mass times the number of particles up to that error per
\* particle
C8_WeightsSumToOne == MassBooked(RoundingTolerance)

\* C8 (as stated): the nine weights sum to 1, the mass a particle adds is
\* exactly particle_mass and the mass of the grid after P2G is
\* particle_mass times the number of particles
C8_ExactMass == MassBooked(0)

\* C8: P2G has scattered every particle, and stencils overlap
C8_AllScattered ==
  /\ pc = "solve"
  /\ Len(particles) > 1
  /\ Cardinality(touched) < 9 * Len(particles)

\* floor(p.x * inv_dx - 0.5), the mathematical floor
FloorCoord(x) ==
  <<(Mul(x[1], inv_dx) - Half) \div Scale,
    (Mul(x[2], inv_dx) - Half) \div Scale>>

\* C9: the base cell P2G and G2P compute for a particle at x is
\* floor(x / dx - 0.5) in each component, also where x / dx - 0.5 is
\* negative, and G2P computes the base cell and the offset that P2G
\* computed for the particle in the same step
C9_BaseCellIsFloor ==
  /\ \A q \in 1..Len(located.p2g) :
       located.p2g[q].base = FloorCoord(located.p2g[q].x)
  /\ \A q \in 1..Len(located.g2p) :
       /\ located.g2p[q].base = FloorCoord(located.g2p[q].x)
       /\ located.g2p[q] = located.p2g[q]

====
